---- MODULE Spec2Model ----
(***************************************************************************)
(* ASES configuration aggregate (ases_config.py) and Firestore gateway     *)
(* (firebase_manager.py), as a state machine.                              *)
(*                                                                         *)
(* Python strings are TLA+ strings, None is the string "None", an          *)
(* exception is a record [type, msg], a float f is the integer 100 * f.    *)
(***************************************************************************)
EXTENDS Integers, Sequences, FiniteSets, TLC

VARIABLES
    environ,      \* os.environ of the process
    classDefaults,\* defaults bound when the dataclass bodies were executed
    config,       \* ases_config.config, the module-level aggregate
    loaded,       \* last ASESConfig.load_from_env() made by the host, with the environment it saw
    files,        \* paths that exist on the file system
    apps,         \* firebase_admin._apps, the registry of initialized apps
    initCalls,    \* successful firebase_admin.initialize_app calls so far
    gateways,     \* FirebaseManager objects in construction order
    log,          \* records emitted through logger
    store,        \* documents written to Firestore
    last,         \* last gateway method call and its outcome
    naming        \* a FirebaseConfig instance, an entity name and get_collection_name's result

vars == <<environ, classDefaults, config, loaded, files, apps, initCalls,
          gateways, log, store, last, naming>>

\* ---------------------------------------------------------------- bounds
MaxGateways == 2
MaxLog == 2
MaxNameLen == 2

\* ---------------------------------------------------------------- values
None == "None"

NoError == [type |-> "none", msg |-> ""]

EnvVars == {"FIREBASE_PROJECT_ID", "FIREBASE_CREDENTIAL_PATH",
            "EXCHANGE_API_KEY", "EXCHANGE_API_SECRET"}

\* Environments the host process runs with: a variable is unset (None) or "foo".
Environments ==
    { e \in [EnvVars -> {None, "foo"}] :
        { k \in EnvVars : e[k] # None } \in
            { {}, {"FIREBASE_PROJECT_ID"}, EnvVars } }

FileSystems == { {}, {"./serviceAccountKey.json"} }

EntityNames == {"", "back/tests"}

\* ------------------------------------------------------- ases_config.py
getenv(env, key, default) == IF env[key] = None THEN default ELSE env[key]

\* The class bodies run once, at import: os.getenv is evaluated there and its
\* value becomes the field default of every later instance.
FirebaseConfigDefaults(env) ==
    [ project_id        |-> getenv(env, "FIREBASE_PROJECT_ID", "ases-trading"),
      credential_path   |-> getenv(env, "FIREBASE_CREDENTIAL_PATH", "./serviceAccountKey.json"),
      collection_prefix |-> "ases_" ]

ExchangeConfigDefaults(env) ==
    [ exchange_id  |-> "binance",
      api_key      |-> getenv(env, "EXCHANGE_API_KEY", ""),
      api_secret   |-> getenv(env, "EXCHANGE_API_SECRET", ""),
      sandbox_mode |-> TRUE,
      rate_limit   |-> 10,
      timeout      |-> 30 ]

SystemConfigDefaults ==
    [ log_level                 |-> "INFO",
      max_concurrent_strategies |-> 5,
      evolution_cycle_hours     |-> 24,
      min_backtest_period_days  |-> 30,
      max_drawdown_threshold    |-> 20,
      min_sharpe_ratio          |-> 100,
      performance_thresholds    |->
          [ min_profit_factor  |-> 150,
            min_win_rate       |-> 45,
            max_daily_loss     |-> 5,
            min_trades_per_day |-> 300 ] ]

StrategyConfigDefaults ==
    [ available_timeframes        |-> <<"5m", "15m", "1h", "4h", "1d">>,
      max_indicators_per_strategy |-> 5,
      available_indicators        |-> <<"sma", "ema", "rsi", "macd", "bollinger_bands",
                                        "atr", "stochastic", "obv", "vwap">>,
      min_correlation_threshold   |-> 30,
      max_correlation_threshold   |-> 80 ]

ClassDefinitions(env) ==
    [ firebase |-> FirebaseConfigDefaults(env),
      exchange |-> ExchangeConfigDefaults(env),
      system   |-> SystemConfigDefaults,
      strategy |-> StrategyConfigDefaults ]

\* ASESConfig(): every field comes from its default_factory, i.e. from the
\* defaults the classes were defined with.
ASESConfig(defaults) ==
    [ firebase |-> defaults.firebase,
      exchange |-> defaults.exchange,
      system   |-> defaults.system,
      strategy |-> defaults.strategy ]

load_from_env(defaults) == ASESConfig(defaults)

\* Faulty variant: a separator is inserted between prefix and entity.
get_collection_name_mut(self, entity) == self.collection_prefix \o "_" \o entity

get_collection_name(self, entity) == self.collection_prefix \o entity

\* --------------------------------------------------- firebase_manager.py
\* Names bound at module level of firebase_manager.py by its import block and
\* by the logger assignment.
ModuleNames ==
    { "logging", "Dict", "Any", "List", "Optional", "Union", "firebase_admin",
      "credentials", "firestore", "exceptions", "FieldFilter", "datetime",
      "timedelta", "json", "traceback", "config", "logger" }

\* Evaluating a global name that the module never bound raises NameError.
NameResolves(name) == name \in ModuleNames

NameError(name) == [type |-> "NameError", msg |-> "name '" \o name \o "' is not defined"]

FileNotFoundError(cred_path) ==
    [ type |-> "FileNotFoundError",
      msg  |-> "Firebase credentials not found at " \o cred_path \o
               ". Please download serviceAccountKey.json from Firebase Console." ]

\* firebase_admin.initialize_app refuses a second default app.
DuplicateAppError ==
    [type |-> "ValueError", msg |-> "The default Firebase app already exists."]

\* What firestore.client() can do for the default app: return a client, raise a
\* FirebaseError, or raise another exception.
ClientOutcomes ==
    { NoError,
      [type |-> "FirebaseError", msg |-> "service unavailable"],
      [type |-> "Exception", msg |-> "project id is required"] }

IsFirebaseError(e) == e.type = "FirebaseError"

DefaultApp(project_id) == [name |-> "[DEFAULT]", projectId |-> project_id]

firestore_client(registry) ==
    LET app == CHOOSE a \in registry : a.name = "[DEFAULT]"
    IN  "client(" \o app.name \o "," \o app.projectId \o ")"

LogRecord(level, text, detail) == [level |-> level, msg |-> text \o detail]

\* Faulty variant: the registry check is dropped, every construction initializes.
apps_is_empty_mut(registry) == TRUE

\* `not firebase_admin._apps`
apps_is_empty(registry) == registry = {}

\* The try body of _initialize_firebase: [db, apps, inits, log, raised].
initialize_firebase_try(self, registry, fs, cfg, client) ==
    LET cred_path == cfg.firebase.credential_path
        stop(e)   == [db |-> self.db, apps |-> registry, inits |-> 0, log |-> <<>>, raised |-> e]
        connect(reg, n, lg) ==
            IF client = NoError
            THEN [db |-> firestore_client(reg), apps |-> reg, inits |-> n, log |-> lg,
                  raised |-> NoError]
            ELSE [db |-> self.db, apps |-> reg, inits |-> n, log |-> lg, raised |-> client]
    IN  IF apps_is_empty(registry)
        THEN IF ~NameResolves("os")
             THEN stop(NameError("os"))
             ELSE IF cred_path \notin fs
             THEN stop(FileNotFoundError(cred_path))
             ELSE IF registry # {}
             THEN stop(DuplicateAppError)
             ELSE connect({DefaultApp(cfg.firebase.project_id)}, 1,
                          <<LogRecord("INFO", "Firebase initialized successfully", "")>>)
        ELSE connect(registry, 0, <<>>)

\* Faulty variant: the except clauses log the error and swallow it.
initialize_firebase_mut(self, registry, fs, cfg, client) ==
    LET r == initialize_firebase_try(self, registry, fs, cfg, client)
    IN  IF r.raised = NoError
        THEN r
        ELSE [r EXCEPT !.raised = NoError,
                       !.log = Append(@, LogRecord("ERROR",
                                "Firebase initialization failed: ", r.raised.msg))]

\* _initialize_firebase: both except clauses log the error once and re-raise it.
initialize_firebase(self, registry, fs, cfg, client) ==
    LET r == initialize_firebase_try(self, registry, fs, cfg, client)
    IN  IF r.raised = NoError
        THEN r
        ELSE IF IsFirebaseError(r.raised)
        THEN [r EXCEPT !.log = Append(@, LogRecord("ERROR",
                                "Firebase initialization failed: ", r.raised.msg))]
        ELSE [r EXCEPT !.log = Append(@, LogRecord("ERROR",
                                "Unexpected error during Firebase init: ", r.raised.msg))]

\* FirebaseManager.__init__: self.db = None, then _initialize_firebase().
FirebaseManager_init(registry, fs, cfg, client) ==
    initialize_firebase([db |-> None], registry, fs, cfg, client)

AttributeError ==
    [type |-> "AttributeError", msg |-> "'NoneType' object has no attribute 'collection'"]

\* Faulty variant: the collection is looked up under the bare entity name.
get_collection_mut(self, cfg, entity_name) ==
    IF self.db = None
    THEN [ret |-> None, raised |-> AttributeError]
    ELSE [ret |-> self.db \o ".collection(" \o entity_name \o ")", raised |-> NoError]

\* FirebaseManager.get_collection: [ret, raised].
get_collection(self, cfg, entity_name) ==
    LET collection_name == get_collection_name(cfg.firebase, entity_name)
    IN  IF self.db = None
        THEN [ret |-> None, raised |-> AttributeError]
        ELSE [ret |-> self.db \o ".collection(" \o collection_name \o ")", raised |-> NoError]

\* Fields a strategy record must carry to be written.
RequiredFields == {"strategy_id", "created_at"}

StrategyRecords ==
    { [strategy_id |-> "s1", created_at |-> "t0"],
      [strategy_id |-> "s1"] }

\* What the store can do with a write: accept it, or fail transiently.
StoreOutcomes == { NoError, [type |-> "ServiceUnavailable", msg |-> "deadline exceeded"] }

ValidationError(missing) ==
    [ type |-> "ValueError",
      msg  |-> "missing required field " \o (CHOOSE f \in missing : TRUE) ]

\* Faulty variant: a store error escapes save_strategy unlogged.
save_strategy_mut(self, cfg, strategy_data, write, docs) ==
    LET missing == RequiredFields \ DOMAIN strategy_data
        coll    == get_collection(self, cfg, "strategies")
    IN  IF missing # {}
        THEN [ ret |-> None, raised |-> NoError, store |-> docs,
               log |-> <<LogRecord("ERROR", "Failed to save strategy: ",
                                   ValidationError(missing).msg)>> ]
        ELSE IF write # NoError
        THEN [ret |-> None, raised |-> write, store |-> docs, log |-> <<>>]
        ELSE [ ret |-> strategy_data.strategy_id, raised |-> NoError, log |-> <<>>,
               store |-> docs \cup { [ collection |-> coll.ret,
                                       id         |-> strategy_data.strategy_id,
                                       data       |-> strategy_data ] } ]

\* FirebaseManager.save_strategy: [ret, raised, log, store]. Validation and
\* store errors are caught, logged once and turned into a None result.
save_strategy(self, cfg, strategy_data, write, docs) ==
    LET missing  == RequiredFields \ DOMAIN strategy_data
        coll     == get_collection(self, cfg, "strategies")
        failed(e) == [ ret |-> None, raised |-> NoError, store |-> docs,
                       log |-> <<LogRecord("ERROR", "Failed to save strategy: ", e.msg)>> ]
    IN  IF missing # {}
        THEN failed(ValidationError(missing))
        ELSE IF coll.raised # NoError
        THEN failed(coll.raised)
        ELSE IF write # NoError
        THEN failed(write)
        ELSE [ ret |-> strategy_data.strategy_id, raised |-> NoError, log |-> <<>>,
               store |-> docs \cup { [ collection |-> coll.ret,
                                       id         |-> strategy_data.strategy_id,
                                       data       |-> strategy_data ] } ]

\* ---------------------------------------------------------------- state machine
\* State once both modules are imported: the class bodies and
\* `config = ASESConfig.load_from_env()` ran under the import-time environment.
Init ==
    /\ environ \in Environments
    /\ classDefaults = ClassDefinitions(environ)
    /\ config = load_from_env(classDefaults)
    /\ loaded = <<>>
    /\ files \in FileSystems
    /\ apps = {}
    /\ initCalls = 0
    /\ gateways = <<>>
    /\ log = <<>>
    /\ store = {}
    /\ last = <<>>
    /\ naming = [self |-> config.firebase, entity |-> "", ret |-> None]

\* The host process changes its environment (os.environ, putenv).
SetEnv(e) ==
    /\ e # environ
    /\ environ' = e
    /\ UNCHANGED <<naming, classDefaults, config, loaded, files, apps, initCalls, gateways,
                   log, store, last>>

\* Faulty variant: load_from_env re-reads the environment and rebinds the global config.
LoadFromEnv_mut ==
    /\ loaded' = <<[env |-> environ, aggregate |-> ASESConfig(ClassDefinitions(environ))]>>
    /\ config' = ASESConfig(ClassDefinitions(environ))
    /\ UNCHANGED <<naming, environ, classDefaults, files, apps, initCalls, gateways,
                   log, store, last>>

\* The host calls ASESConfig.load_from_env().
LoadFromEnv ==
    /\ loaded' = <<[env |-> environ, aggregate |-> load_from_env(classDefaults)]>>
    /\ UNCHANGED <<naming, environ, classDefaults, config, files, apps, initCalls, gateways,
                   log, store, last>>

\* Other code of the process initializes the default firebase app; a second
\* initialize_app would raise, so it happens only on an empty registry.
HostInitializeApp ==
    /\ apps = {}
    /\ apps' = {DefaultApp(config.firebase.project_id)}
    /\ initCalls' = initCalls + 1
    /\ UNCHANGED <<naming, environ, classDefaults, config, loaded, files, gateways, log,
                   store, last>>

\* Faulty variant: db is a class attribute, so every construction rebinds the handle
\* of all existing gateways.
Construct_mut(client) ==
    LET r == FirebaseManager_init(apps, files, config, client)
    IN  /\ Len(gateways) < MaxGateways
        /\ Len(log) + Len(r.log) <= MaxLog
        /\ gateways' = Append([i \in 1..Len(gateways) |-> [gateways[i] EXCEPT !.db = r.db]],
                              [db |-> r.db, raised |-> r.raised])
        /\ apps' = r.apps
        /\ initCalls' = initCalls + r.inits
        /\ log' = log \o r.log
        /\ UNCHANGED <<naming, environ, classDefaults, config, loaded, files, store, last>>

\* FirebaseManager(): the object is recorded with the error its constructor
\* raised; the caller holds it only when raised = NoError.
Construct(client) ==
    LET r == FirebaseManager_init(apps, files, config, client)
    IN  /\ Len(gateways) < MaxGateways
        /\ Len(log) + Len(r.log) <= MaxLog
        /\ gateways' = Append(gateways, [db |-> r.db, raised |-> r.raised])
        /\ apps' = r.apps
        /\ initCalls' = initCalls + r.inits
        /\ log' = log \o r.log
        /\ UNCHANGED <<naming, environ, classDefaults, config, loaded, files, store, last>>

Held(i) == i \in 1..Len(gateways) /\ gateways[i].raised = NoError

\* gateway.get_collection(entity_name) on a gateway the caller holds.
GetCollection(i, entity_name) ==
    LET r == get_collection(gateways[i], config, entity_name)
    IN  /\ Held(i)
        /\ last' = <<[ op |-> "get_collection", gw |-> i, self |-> gateways[i],
                       entity |-> entity_name, ret |-> r.ret, raised |-> r.raised ]>>
        /\ UNCHANGED <<naming, environ, classDefaults, config, loaded, files, apps, initCalls,
                       gateways, log, store>>

\* gateway.save_strategy(strategy_data) on a gateway the caller holds.
SaveStrategy(i, strategy_data, write) ==
    LET r == save_strategy(gateways[i], config, strategy_data, write, store)
    IN  /\ Held(i)
        /\ Len(log) + Len(r.log) <= MaxLog
        /\ store' = r.store
        /\ log' = log \o r.log
        /\ last' = <<[ op |-> "save_strategy", gw |-> i, self |-> gateways[i],
                       record |-> strategy_data, write |-> write,
                       ret |-> r.ret, raised |-> r.raised, logged |-> r.log ]>>
        /\ UNCHANGED <<naming, environ, classDefaults, config, loaded, files, apps, initCalls,
                       gateways>>

Next ==
    \/ \E e \in Environments : SetEnv(e)
    \/ LoadFromEnv
    \/ HostInitializeApp
    \/ \E client \in ClientOutcomes : Construct(client)
    \/ \E i \in 1..MaxGateways, n \in EntityNames : GetCollection(i, n)
    \/ \E i \in 1..MaxGateways, d \in StrategyRecords, w \in StoreOutcomes :
           SaveStrategy(i, d, w)

Spec == Init /\ [][Next]_vars

\* ------------------------------------------------ get_collection_name alone
\* FirebaseConfig.get_collection_name on instances built with any prefix
\* (FirebaseConfig(collection_prefix=p)) and on entity names typed character
\* by character.
Prefixes == {"ases_", "", "test-", "a/"}

Alphabet == {"s", "/", " "}

InitNaming ==
    /\ environ \in Environments
    /\ classDefaults = ClassDefinitions(environ)
    /\ config = load_from_env(classDefaults)
    /\ loaded = <<>>
    /\ files = {}
    /\ apps = {}
    /\ initCalls = 0
    /\ gateways = <<>>
    /\ log = <<>>
    /\ store = {}
    /\ last = <<>>
    /\ \E p \in Prefixes :
           naming = [ self   |-> [classDefaults.firebase EXCEPT !.collection_prefix = p],
                      entity |-> "", ret |-> None ]

TypeChar(c) ==
    /\ Len(naming.entity) < MaxNameLen
    /\ naming' = [naming EXCEPT !.entity = @ \o c, !.ret = None]
    /\ UNCHANGED <<environ, classDefaults, config, loaded, files, apps, initCalls,
                   gateways, log, store, last>>

CallGetCollectionName ==
    /\ naming' = [naming EXCEPT !.ret = get_collection_name(naming.self, naming.entity)]
    /\ UNCHANGED <<environ, classDefaults, config, loaded, files, apps, initCalls,
                   gateways, log, store, last>>

NextNaming ==
    \/ \E c \in Alphabet : TypeChar(c)
    \/ CallGetCollectionName

SpecNaming == InitNaming /\ [][NextNaming]_vars

\* ------------------------------------------------------------------ claims
NoOverrides == [k \in EnvVars |-> None]

OnlyProjectId == [NoOverrides EXCEPT !["FIREBASE_PROJECT_ID"] = "foo"]

\* The documented static defaults: the aggregate of a process without overrides.
StaticDefaults == ASESConfig(ClassDefinitions(NoOverrides))

LogTexts ==
    { "Firebase initialization failed: ", "Unexpected error during Firebase init: ",
      "Failed to save strategy: " }

\* The log message is a known text followed by the error's message.
HasDetail(entry, e) == \E t \in LogTexts : entry.msg = t \o e.msg

ConstructStep == Len(gateways') = Len(gateways) + 1

NewGateway == gateways'[Len(gateways')]

LoggedByStep == SubSeq(log', Len(log) + 1, Len(log'))

IsErrorRecord(entry) == entry.level = "ERROR"

\* C1: a construction that reaches the credential check (no app initialized
\* yet) while no file exists at the configured credential path raises
\* FileNotFoundError and leaves db unset.
C1_MissingCredentialRaisesFileNotFound ==
    [][ (ConstructStep /\ apps = {} /\ config.firebase.credential_path \notin files)
          => (NewGateway.raised.type = "FileNotFoundError" /\ NewGateway.db = None) ]_vars

\* C2: the default app is initialized at most once; a construction that finds
\* an initialized app makes no initialize_app call, leaves the registry as it
\* is, raises nothing but what firestore.client() raises, and when client()
\* returns it succeeds with the client of the existing app.
C2_InitializedAtMostOnce ==
    /\ [](initCalls <= 1 /\ Cardinality(apps) <= 1)
    /\ [][ (ConstructStep /\ apps # {})
             => /\ apps' = apps
                /\ initCalls' = initCalls
                /\ NewGateway.raised \in ClientOutcomes
                /\ NewGateway.raised = NoError => NewGateway.db = firestore_client(apps) ]_vars

C2_Witness ==
    /\ Len(gateways) = 2
    /\ \A i \in 1..2 : gateways[i].raised = NoError /\ gateways[i].db = firestore_client(apps)
    /\ initCalls = 1

\* C3: load_from_env() called while FIREBASE_PROJECT_ID=foo (and nothing else)
\* is set returns project_id "foo" and the static default in every other field.
C3_LoadReadsProjectIdAtCall ==
    (loaded # <<>> /\ loaded[1].env = OnlyProjectId)
        => loaded[1].aggregate = [StaticDefaults EXCEPT !.firebase.project_id = "foo"]

\* C4: save_strategy raises nothing for a record missing required fields or a
\* transient store error, returns None for both, logs exactly one entry
\* carrying the store error's detail, and leaves the gateway and, on failure,
\* the stored documents as they were.
C4_SaveStrategyReportsFailure ==
    /\ [](\A k \in 1..Len(last) :
            last[k].op = "save_strategy" =>
              LET c == last[k]
                  invalid == ~(RequiredFields \subseteq DOMAIN c.record)
              IN  /\ c.raised = NoError
                  /\ gateways[c.gw] = c.self
                  /\ invalid => c.ret = None
                  /\ (~invalid /\ c.write # NoError) =>
                        /\ c.ret = None
                        /\ Len(c.logged) = 1
                        /\ IsErrorRecord(c.logged[1])
                        /\ HasDetail(c.logged[1], c.write))
    /\ [][ (last' # last /\ last'[1].op = "save_strategy")
             => /\ gateways' = gateways
                /\ log' = log \o last'[1].logged
                /\ last'[1].ret = None => store' = store ]_vars

C4_Witness ==
    /\ last # <<>>
    /\ last[1].op = "save_strategy"
    /\ RequiredFields \subseteq DOMAIN last[1].record
    /\ last[1].write # NoError
    /\ last[1].ret = None
    /\ Len(log) >= 1
    /\ log[Len(log)] = last[1].logged[1]

\* C5: a construction that raises logs exactly one error record carrying the
\* error's message and leaves db unset; a gateway has a client handle exactly
\* when its constructor returned normally.
C5_ConstructionAllOrNothing ==
    /\ [](\A i \in 1..Len(gateways) : gateways[i].db # None <=> gateways[i].raised = NoError)
    /\ [][ (ConstructStep /\ NewGateway.raised # NoError)
             => /\ NewGateway.db = None
                /\ Len(SelectSeq(LoggedByStep, IsErrorRecord)) = 1
                /\ HasDetail(log'[Len(log')], NewGateway.raised)
                /\ IsErrorRecord(log'[Len(log')]) ]_vars

C5_Witness ==
    /\ Len(gateways) = 2
    /\ gateways[1].raised.type = "NameError"
    /\ gateways[2].raised.type = "FirebaseError"
    /\ Len(log) = 2
    /\ HasDetail(log[1], gateways[1].raised)
    /\ HasDetail(log[2], gateways[2].raised)

\* C6: load_from_env() called while no override is set returns the documented
\* static defaults in every field.
C6_LoadWithoutOverridesIsDefault ==
    (loaded # <<>> /\ loaded[1].env = NoOverrides)
        => /\ loaded[1].aggregate = StaticDefaults
           /\ loaded[1].aggregate.exchange.sandbox_mode = TRUE
           /\ loaded[1].aggregate.exchange.rate_limit = 10
           /\ loaded[1].aggregate.system.max_drawdown_threshold = 20
           /\ loaded[1].aggregate.firebase.project_id = "ases-trading"
           /\ loaded[1].aggregate.firebase.collection_prefix = "ases_"

\* C7: get_collection_name returns the prefix followed by the entity name,
\* nothing added or removed; the empty name gives the prefix alone; the call
\* changes neither the instance nor anything else.
C7_CollectionNameIsPrefixPlusEntity ==
    /\ [](naming.ret # None =>
            /\ naming.ret = naming.self.collection_prefix \o naming.entity
            /\ Len(naming.ret) = Len(naming.self.collection_prefix) + Len(naming.entity)
            /\ naming.entity = "" => naming.ret = naming.self.collection_prefix
            /\ (naming.self.collection_prefix = "ases_" /\ naming.entity = "s/")
                  => naming.ret = "ases_s/")
    /\ [][ (naming'.ret # None)
             => /\ naming'.self = naming.self
                /\ naming'.entity = naming.entity
                /\ UNCHANGED <<environ, classDefaults, config, loaded, files, apps,
                               initCalls, gateways, log, store, last>> ]_vars

C7_Witness ==
    /\ naming.self.collection_prefix = "ases_"
    /\ naming.entity = "s/"
    /\ naming.ret = "ases_s/"

\* C8: get_collection is served only by a gateway with a cached client, returns
\* that client's collection named prefix + entity, and changes no state of
\* the gateway.
C8_GetCollectionFromCachedClient ==
    /\ [](\A k \in 1..Len(last) :
            last[k].op = "get_collection" =>
              LET c == last[k]
              IN  /\ c.self.db # None
                  /\ c.raised = NoError
                  /\ c.ret = c.self.db \o ".collection(" \o
                             config.firebase.collection_prefix \o c.entity \o ")"
                  /\ gateways[c.gw] = c.self)
    /\ [][ (last' # last /\ last'[1].op = "get_collection")
             => UNCHANGED <<gateways, apps, initCalls, log, store, config>> ]_vars

C8_Witness ==
    /\ last # <<>>
    /\ last[1].op = "get_collection"
    /\ last[1].entity = "back/tests"
    /\ last[1].ret = "client([DEFAULT],ases-trading).collection(ases_back/tests)"

\* C9: no step changes the module-level aggregate or the defaults it was built
\* from, whatever happens to the environment or the gateways, and
\* load_from_env changes nothing but the aggregate it hands back.
C9_ConfigReadOnly ==
    /\ [][config' = config /\ classDefaults' = classDefaults]_vars
    /\ [][ loaded' # loaded
             => UNCHANGED <<environ, classDefaults, config, files, apps, initCalls,
                            gateways, log, store, last, naming>> ]_vars

C9_Witness ==
    /\ ClassDefinitions(environ) # classDefaults
    /\ loaded # <<>>
    /\ loaded[1].env = environ
    /\ \E i \in 1..Len(gateways) : gateways[i].db # None
    /\ last # <<>>
    /\ last[1].op = "save_strategy"
    /\ config = ASESConfig(classDefaults)

\* C10: a cached client handle is never reset or replaced, and every later
\* call on the gateway works on that handle.
C10_ConnectedIsTerminal ==
    /\ [][ \A i \in 1..Len(gateways) :
             gateways[i].db # None
               => (i <= Len(gateways') /\ gateways'[i].db = gateways[i].db) ]_vars
    /\ [](\A k \in 1..Len(last) :
            /\ last[k].self.db # None
            /\ last[k].self.db = gateways[last[k].gw].db)

C10_Witness ==
    /\ Len(gateways) = 2
    /\ gateways[1].db # None
    /\ gateways[2].raised # NoError
    /\ last # <<>>
    /\ last[1].gw = 1
    /\ last[1].op = "get_collection"
    /\ last[1].self.db = gateways[1].db

====
